---- MODULE Spec2Model ----
(***************************************************************************)
(* Model of the scan and build scripts of the repository.                  *)
(*                                                                         *)
(*   docker_scan.mjs   one run of the vulnerability scan script: tool      *)
(*                     check, image resolution, the two trivy runs, the    *)
(*                     parsing of the JSON report, the summary file, the   *)
(*                     terminal summary and the top critical/high list.    *)
(*   local_build.mjs   parseSizeToBytes, applied to a size string.         *)
(*                                                                         *)
(* A JSON value that the script reads is modelled by the shapes the code   *)
(* distinguishes: a property access on null throws, a falsy value skips an *)
(* `if`, a truthy value that is not iterable throws in `for .. of`.        *)
(* A JS object used as a map (severityMap, vulnCounts) is the sequence of  *)
(* its entries in insertion order, which is the order Object.entries       *)
(* yields for string keys.                                                 *)
(***************************************************************************)
EXTENDS Integers, Sequences, FiniteSets, TLC

VARIABLES
    pc,           \* position of the scan script
    jsonFile,     \* content of trivyJsonFile on disk
    scanSuccess,  \* docker_scan.mjs:89
    vulnCounts,   \* docker_scan.mjs:90
    totalVulns,   \* docker_scan.mjs:91
    uniqueCves,   \* docker_scan.mjs:92
    parseWarned,  \* "WARN: Could not parse JSON report" was echoed
    summaryFile,  \* content of summaryFile on disk
    terminal,     \* the terminal vulnerability summary
    topShown,     \* the lines of the top critical/high section
    moreCount,    \* N of the "... and N more" line, 0 when not printed
    sizePc,       \* position of the parseSizeToBytes call
    sizeString,   \* argument of parseSizeToBytes
    sizeResult,   \* value returned by parseSizeToBytes
    sizeWarned,   \* parseSizeToBytes echoed its warning
    estPc,                      \* position in the size estimation of the build script
    compiledAppOutputBytes,     \* local_build.mjs:278
    virtualSizeBytes,           \* local_build.mjs:257
    estimatedTotalImageSizeMB,  \* local_build.mjs:277
    estimateWarned,             \* "WARN: Could not calculate Estimated Total Image Size"
    summaryEstimate,            \* the estimate lines of the build summary
    metadataFile,    \* image_name of .build_metadata.json, or AbsentFile
    scanImageName,   \* process.env.SCAN_IMAGE_NAME
    imageExists,     \* docker image inspect of the default image succeeds
    fullImageName,   \* docker_scan.mjs:29
    checkedImage,    \* the image docker image inspect was run on
    sizedImage,      \* the image compressedSize and uncompressedSize describe
    scannedImage,    \* the image handed to trivy
    summaryImage,    \* the "Image:" line and the size lines of the summary file
    script,          \* the build script that runs
    buildPc,         \* position of the build script
    packageJson,     \* content of ./package.json
    packageJsonBak,  \* content of ./package.json.bak
    feJson,          \* content of a frontend package.json
    feJsonBak,       \* content of its .bak file
    originalJson     \* content of ./package.json when the script started

scanVars == <<pc, jsonFile, scanSuccess, vulnCounts, totalVulns, uniqueCves,
              parseWarned, summaryFile, terminal, topShown, moreCount>>
sizeVars == <<sizePc, sizeString, sizeResult, sizeWarned>>
estVars == <<estPc, compiledAppOutputBytes, virtualSizeBytes,
             estimatedTotalImageSizeMB, estimateWarned, summaryEstimate>>
imgVars == <<metadataFile, scanImageName, imageExists, fullImageName,
             checkedImage, sizedImage, scannedImage, summaryImage>>
buildVars == <<script, buildPc, packageJson, packageJsonBak, feJson, feJsonBak,
               originalJson>>
vars == <<pc, jsonFile, scanSuccess, vulnCounts, totalVulns, uniqueCves,
          parseWarned, summaryFile, terminal, topShown, moreCount,
          sizePc, sizeString, sizeResult, sizeWarned,
          estPc, compiledAppOutputBytes, virtualSizeBytes,
          estimatedTotalImageSizeMB, estimateWarned, summaryEstimate,
          metadataFile, scanImageName, imageExists, fullImageName,
          checkedImage, sizedImage, scannedImage, summaryImage,
          script, buildPc, packageJson, packageJsonBak, feJson, feJsonBak,
          originalJson>>

----------------------------------------------------------------------------
(* Bounds of the model *)

\* entries of pnpm.patchedDependencies
MaxPatches == 2
\* entries of a report drawn from the full alphabet of entries
MaxVulns == 2
\* result groups of such a report
MaxGroups == 2
\* entries of a one-group report drawn from the critical/high alphabet
MaxLongVulns == 6
\* characters of a size string
MaxLen == 4
\* sizes offered to the estimation, beside 0 and 1 byte
MaxSizeSteps == 8

----------------------------------------------------------------------------
(* JSON values of the scanner report *)

\* a property that is absent reads as undefined; as an object key and in a
\* template string it becomes the text "undefined"
Undefined == "undefined"

Vuln(sev, id, title) ==
    [isNull |-> FALSE, Severity |-> sev, VulnerabilityID |-> id,
     Title |-> title, PkgName |-> "openssl"]

\* a vulnerability entry that is JSON null
NullVuln ==
    [isNull |-> TRUE, Severity |-> Undefined, VulnerabilityID |-> Undefined,
     Title |-> Undefined, PkgName |-> Undefined]

\* entries of the small reports: the known severities, a repeated identifier,
\* an unrecognized severity, a missing severity and title, a null entry
VulnAlphabet ==
    { Vuln("CRITICAL", "CVE-1", "t1"),
      Vuln("HIGH", "CVE-1", Undefined),
      Vuln("MEDIUM", "CVE-2", "t2"),
      Vuln("NEGLIGIBLE", "CVE-3", "t3"),
      Vuln(Undefined, "CVE-2", ""),
      Vuln("CRITICAL", "CVE-4", ""),
      NullVuln }

\* entries of the long reports
LongAlphabet ==
    { Vuln("CRITICAL", "CVE-1", "t1"),
      Vuln("HIGH", "CVE-2", "t2"),
      Vuln("HIGH", "CVE-3", Undefined),
      Vuln("MEDIUM", "CVE-4", "t4"),
      NullVuln }

SeqsUpTo(S, n) == UNION { [1..k -> S] : k \in 0..n }

\* a result group: null, without Vulnerabilities, or with a list of them
NullGroup == [kind |-> "null", Vulnerabilities |-> <<>>]
EmptyGroup == [kind |-> "noVulns", Vulnerabilities |-> <<>>]
ListGroup(vs) == [kind |-> "list", Vulnerabilities |-> vs]

RECURSIVE GroupSeqs(_, _)
\* the sequences of at most g groups holding at most n entries in all
GroupSeqs(g, n) ==
    IF g = 0 THEN { <<>> }
    ELSE { <<>> } \cup
         { <<p[1]>> \o p[2] : p \in {NullGroup, EmptyGroup} \X GroupSeqs(g - 1, n) } \cup
         UNION { { <<ListGroup(p[1])>> \o p[2] :
                     p \in [1..k -> VulnAlphabet] \X GroupSeqs(g - 1, n - k) }
                 : k \in 0..n }

\* the JSON file: absent, not JSON (empty, truncated), the JSON value null,
\* an object without Results, with Results that is no list, with a list
File(kind, results) == [kind |-> kind, Results |-> results]

SmallReports == { File("list", rs) : rs \in GroupSeqs(MaxGroups, MaxVulns) }
LongReports ==
    { File("list", <<ListGroup(vs)>>) : vs \in SeqsUpTo(LongAlphabet, MaxLongVulns) }
OddReports ==
    { File(k, <<>>) : k \in {"garbage", "null", "noResults", "notList"} }
Reports == SmallReports \cup LongReports \cup OddReports

----------------------------------------------------------------------------
(* JS objects used as maps *)

Keys(m) == { m[i].key : i \in 1..Len(m) }

\* m[k] || 0
Get(m, k) ==
    IF k \in Keys(m)
    THEN (CHOOSE e \in { m[i] : i \in 1..Len(m) } : e.key = k).count
    ELSE 0

\* m[k] = (m[k] || 0) + 1
Incr(m, k) ==
    IF k \in Keys(m)
    THEN [i \in 1..Len(m) |->
            IF m[i].key = k THEN [key |-> k, count |-> m[i].count + 1] ELSE m[i]]
    ELSE Append(m, [key |-> k, count |-> 1])

----------------------------------------------------------------------------
(* Parsing of the vulnerability counts, docker_scan.mjs:107-131 *)

EmptyTally == [severityMap |-> <<>>, total |-> 0, cveSet |-> {}, threw |-> FALSE]

RECURSIVE CountVulns(_, _)
\* the inner loop: `vuln.Severity` of a null entry throws a TypeError
CountVulns(vs, acc) ==
    IF vs = <<>> THEN acc
    ELSE LET vuln == Head(vs) IN
         IF vuln.isNull THEN [acc EXCEPT !.threw = TRUE]
         ELSE CountVulns(Tail(vs),
                  [severityMap |-> Incr(acc.severityMap, vuln.Severity),
                   total |-> acc.total + 1,
                   cveSet |-> acc.cveSet \cup {vuln.VulnerabilityID},
                   threw |-> FALSE])

RECURSIVE CountResults(_, _)
\* the outer loop: `result.Vulnerabilities` of a null group throws
CountResults(rs, acc) ==
    IF rs = <<>> THEN acc
    ELSE LET result == Head(rs) IN
         IF result.kind = "null" THEN [acc EXCEPT !.threw = TRUE]
         ELSE IF result.kind = "noVulns" THEN CountResults(Tail(rs), acc)
         ELSE LET a == CountVulns(result.Vulnerabilities, acc) IN
              IF a.threw THEN a ELSE CountResults(Tail(rs), a)

\* the body of the try block; total is the number of totalVulns++ executed
CountReport(file) ==
    IF file.kind \in {"garbage", "null", "notList"}
    THEN [EmptyTally EXCEPT !.threw = TRUE]
    ELSE IF file.kind = "noResults" THEN EmptyTally
    ELSE CountResults(file.Results, EmptyTally)

----------------------------------------------------------------------------
(* The summary file, docker_scan.mjs:136-172 *)

\* position of the "... and N more" cut and of slice(0, 5)
TopN == 5

Order == <<"CRITICAL", "HIGH", "MEDIUM", "LOW", "UNKNOWN">>

\* Array.prototype.indexOf: 0-based, -1 when absent
IndexOf(arr, x) ==
    IF \E i \in 1..Len(arr) : arr[i] = x
    THEN (CHOOSE i \in 1..Len(arr) : arr[i] = x /\ \A j \in 1..(i - 1) : arr[j] # x) - 1
    ELSE -1

\* the comparator of the sort
CompareSeverity(a, b) == IndexOf(Order, a.key) - IndexOf(Order, b.key)

\* e goes in front of the first element that compares greater than it
InsertByCompare(sorted, e) ==
    LET later == { i \in 1..Len(sorted) : CompareSeverity(sorted[i], e) > 0 }
        at == IF later = {} THEN Len(sorted) + 1
              ELSE CHOOSE i \in later : \A j \in later : i <= j
    IN SubSeq(sorted, 1, at - 1) \o <<e>> \o SubSeq(sorted, at, Len(sorted))

RECURSIVE SortEntries(_)
\* Array.prototype.sort is stable
SortEntries(entries) ==
    IF entries = <<>> THEN <<>>
    ELSE InsertByCompare(SortEntries(SubSeq(entries, 1, Len(entries) - 1)),
                         entries[Len(entries)])

\* SummaryBreakdown with the test `>= 0`: an empty table instead of the text
SummaryBreakdownAlwaysTable(counts) ==
    [noneFound |-> FALSE, lines |-> SortEntries(counts)]

\* "Breakdown by Severity:" -- one `${severity}: ${count}` line per entry,
\* or the text 'No vulnerabilities found'
SummaryBreakdown(counts) ==
    IF Len(counts) > 0
    THEN [noneFound |-> FALSE, lines |-> SortEntries(counts)]
    ELSE [noneFound |-> TRUE, lines |-> <<>>]

NoSummary ==
    [written |-> FALSE, total |-> 0, unique |-> 0,
     breakdown |-> [noneFound |-> FALSE, lines |-> <<>>]]

----------------------------------------------------------------------------
(* The terminal summary, docker_scan.mjs:187-206 *)

NoTerminal == [printed |-> FALSE, noneFound |-> FALSE, lines |-> <<>>]

TerminalSummary(total, counts) ==
    IF total = 0
    THEN [printed |-> TRUE, noneFound |-> TRUE, lines |-> <<>>]
    ELSE [printed |-> TRUE, noneFound |-> FALSE, lines |-> counts]

----------------------------------------------------------------------------
(* The top critical/high section, docker_scan.mjs:220-261 *)

\* TitleOrPlaceholder without the placeholder
TitleAsIs(title) == title

\* vuln.Title || 'No title'
TitleOrPlaceholder(title) ==
    IF title = Undefined \/ title = "" THEN "No title" ELSE title

Finding(vuln) ==
    [severity |-> vuln.Severity, id |-> vuln.VulnerabilityID,
     title |-> TitleOrPlaceholder(vuln.Title), pkgName |-> vuln.PkgName]

IsCriticalHigh(vuln) == vuln.Severity = "CRITICAL" \/ vuln.Severity = "HIGH"

RECURSIVE CollectVulns(_, _)
CollectVulns(vs, acc) ==
    IF vs = <<>> THEN acc
    ELSE LET vuln == Head(vs) IN
         IF vuln.isNull THEN [acc EXCEPT !.threw = TRUE]
         ELSE CollectVulns(Tail(vs),
                  IF IsCriticalHigh(vuln)
                  THEN [acc EXCEPT !.list = Append(acc.list, Finding(vuln))]
                  ELSE acc)

RECURSIVE CollectResults(_, _)
CollectResults(rs, acc) ==
    IF rs = <<>> THEN acc
    ELSE LET result == Head(rs) IN
         IF result.kind = "null" THEN [acc EXCEPT !.threw = TRUE]
         ELSE IF result.kind = "noVulns" THEN CollectResults(Tail(rs), acc)
         ELSE LET a == CollectVulns(result.Vulnerabilities, acc) IN
              IF a.threw THEN a ELSE CollectResults(Tail(rs), a)

\* criticalHighVulns when the try block ends, and whether it ended in the catch
CollectCriticalHigh(file) ==
    IF file.kind \in {"garbage", "null", "notList"}
    THEN [list |-> <<>>, threw |-> TRUE]
    ELSE IF file.kind = "noResults" THEN [list |-> <<>>, threw |-> FALSE]
    ELSE CollectResults(file.Results, [list |-> <<>>, threw |-> FALSE])

\* TopSlice cutting one entry later
TopSliceOneMore(list) ==
    SubSeq(list, 1, IF Len(list) < TopN + 1 THEN Len(list) ELSE TopN + 1)

\* criticalHighVulns.slice(0, 5)
TopSlice(list) ==
    SubSeq(list, 1, IF Len(list) < TopN THEN Len(list) ELSE TopN)

----------------------------------------------------------------------------
(* The scan script, docker_scan.mjs *)

\* a package.json that does not exist; a .bak file that does not exist
MissingJson == [kind |-> "missing", format |-> "none", pnpm |-> "absent",
                patchedDependencies |-> <<>>, others |-> "none"]

\* the build scripts are not run
BuildIdle ==
    /\ script = "none"
    /\ buildPc = "idle"
    /\ packageJson = MissingJson
    /\ packageJsonBak = MissingJson
    /\ feJson = "missing"
    /\ feJsonBak = "missing"
    /\ originalJson = MissingJson

\* .build_metadata.json does not exist
AbsentFile == "absent"

\* no image: nothing inspected, sizes null (printed as N/A)
NoImage == "none"

\* `${imageBaseName}:${imageTag}` with the defaults of lines 11-12
defaultImageName == "n8n-local:dev"

\* a || b
OrElse(a, b) == IF a \in {Undefined, ""} THEN b ELSE a

NoSummaryImage == [image |-> NoImage, sizesOf |-> NoImage]

\* lines 29-32 and the environment of the script
ImageInit ==
    /\ metadataFile \in {AbsentFile, defaultImageName}
    /\ scanImageName \in {Undefined, "n8n-custom:1"}
    /\ imageExists \in BOOLEAN
    /\ fullImageName = defaultImageName
    /\ checkedImage = NoImage
    /\ sizedImage = NoImage
    /\ scannedImage = NoImage
    /\ summaryImage = NoSummaryImage

\* the scan script is not run
ImageIdle ==
    /\ metadataFile = AbsentFile
    /\ scanImageName = Undefined
    /\ imageExists = TRUE
    /\ fullImageName = defaultImageName
    /\ checkedImage = NoImage
    /\ sizedImage = NoImage
    /\ scannedImage = NoImage
    /\ summaryImage = NoSummaryImage

ScanInit ==
    /\ pc = "tools"
    /\ jsonFile = File("absent", <<>>)
    /\ scanSuccess = TRUE
    /\ vulnCounts = <<>>
    /\ totalVulns = 0
    /\ uniqueCves = 0
    /\ parseWarned = FALSE
    /\ summaryFile = NoSummary
    /\ terminal = NoTerminal
    /\ topShown = <<>>
    /\ moreCount = 0

\* lines 17-26: a missing tool ends the script with exit code 1
CheckTools ==
    /\ pc = "tools"
    /\ \E found \in BOOLEAN : pc' = IF found THEN "image" ELSE "exit"
    /\ UNCHANGED <<jsonFile, scanSuccess, vulnCounts, totalVulns, uniqueCves,
                   parseWarned, summaryFile, terminal, topShown, moreCount>>
    /\ UNCHANGED sizeVars
    /\ UNCHANGED buildVars
    /\ UNCHANGED estVars
    /\ UNCHANGED imgVars

\* lines 28-73: with a metadata file the name and the sizes are read from it;
\* without one the default image must exist and is measured; SCAN_IMAGE_NAME
\* replaces the name after that
ResolveImage ==
    /\ pc = "image"
    /\ IF metadataFile # AbsentFile
       THEN /\ pc' = "scan"
            /\ checkedImage' = NoImage
            /\ sizedImage' = metadataFile
            /\ fullImageName' = OrElse(scanImageName, metadataFile)
       ELSE IF imageExists
       THEN /\ pc' = "scan"
            /\ checkedImage' = fullImageName
            /\ \E measured \in BOOLEAN :
                  sizedImage' = IF measured THEN fullImageName ELSE NoImage
            /\ fullImageName' = OrElse(scanImageName, fullImageName)
       ELSE /\ pc' = "exit"
            /\ checkedImage' = fullImageName
            /\ UNCHANGED <<sizedImage, fullImageName>>
    /\ UNCHANGED <<jsonFile, scanSuccess, vulnCounts, totalVulns, uniqueCves,
                   parseWarned, summaryFile, terminal, topShown, moreCount>>
    /\ UNCHANGED <<metadataFile, scanImageName, imageExists, scannedImage, summaryImage>>
    /\ UNCHANGED sizeVars
    /\ UNCHANGED buildVars
    /\ UNCHANGED estVars

\* lines 94-105: the shell creates the file of a redirection before the
\* command runs, so the JSON file is absent only when the first run failed;
\* a failed second run leaves it empty or truncated
RunTrivy ==
    /\ pc = "scan"
    /\ pc' = "parse"
    /\ \/ scanSuccess' = FALSE /\ jsonFile' = File("absent", <<>>)
       \/ scanSuccess' = FALSE /\ jsonFile' = File("garbage", <<>>)
       \/ scanSuccess' = TRUE /\ jsonFile' \in Reports
    /\ UNCHANGED <<vulnCounts, totalVulns, uniqueCves,
                   parseWarned, summaryFile, terminal, topShown, moreCount>>
    /\ UNCHANGED sizeVars
    /\ UNCHANGED buildVars
    /\ UNCHANGED estVars
    /\ scannedImage' = fullImageName
    /\ UNCHANGED <<metadataFile, scanImageName, imageExists, fullImageName,
                   checkedImage, sizedImage, summaryImage>>

\* ParseReport without the catch block: the exception ends the script
ParseReportUncaught ==
    /\ pc = "parse"
    /\ IF jsonFile.kind = "absent"
       THEN pc' = "summary" /\ UNCHANGED <<vulnCounts, totalVulns, uniqueCves, parseWarned>>
       ELSE LET tally == CountReport(jsonFile) IN
            /\ pc' = IF tally.threw THEN "aborted" ELSE "summary"
            /\ totalVulns' = totalVulns + tally.total
            /\ parseWarned' = FALSE
            /\ IF tally.threw
               THEN UNCHANGED <<vulnCounts, uniqueCves>>
               ELSE /\ vulnCounts' = tally.severityMap
                    /\ uniqueCves' = Cardinality(tally.cveSet)
    /\ UNCHANGED <<jsonFile, scanSuccess, summaryFile, terminal, topShown, moreCount>>
    /\ UNCHANGED sizeVars
    /\ UNCHANGED buildVars
    /\ UNCHANGED estVars
    /\ UNCHANGED imgVars

\* lines 107-131: totalVulns is incremented inside the loop, vulnCounts and
\* uniqueCves are assigned after it
ParseReport ==
    /\ pc = "parse"
    /\ pc' = "summary"
    /\ IF jsonFile.kind = "absent"
       THEN UNCHANGED <<vulnCounts, totalVulns, uniqueCves, parseWarned>>
       ELSE LET tally == CountReport(jsonFile) IN
            /\ totalVulns' = totalVulns + tally.total
            /\ parseWarned' = tally.threw
            /\ IF tally.threw
               THEN UNCHANGED <<vulnCounts, uniqueCves>>
               ELSE /\ vulnCounts' = tally.severityMap
                    /\ uniqueCves' = Cardinality(tally.cveSet)
    /\ UNCHANGED <<jsonFile, scanSuccess, summaryFile, terminal, topShown, moreCount>>
    /\ UNCHANGED sizeVars
    /\ UNCHANGED buildVars
    /\ UNCHANGED estVars
    /\ UNCHANGED imgVars

\* lines 136-172
WriteSummary ==
    /\ pc = "summary"
    /\ pc' = "terminal"
    /\ summaryFile' = [written |-> TRUE, total |-> totalVulns, unique |-> uniqueCves,
                       breakdown |-> SummaryBreakdown(vulnCounts)]
    /\ UNCHANGED <<jsonFile, scanSuccess, vulnCounts, totalVulns, uniqueCves,
                   parseWarned, terminal, topShown, moreCount>>
    /\ UNCHANGED sizeVars
    /\ UNCHANGED buildVars
    /\ UNCHANGED estVars
    /\ summaryImage' = [image |-> fullImageName, sizesOf |-> sizedImage]
    /\ UNCHANGED <<metadataFile, scanImageName, imageExists, fullImageName,
                   checkedImage, sizedImage, scannedImage>>

\* lines 174-218
PrintTerminal ==
    /\ pc = "terminal"
    /\ pc' = "top"
    /\ terminal' = TerminalSummary(totalVulns, vulnCounts)
    /\ UNCHANGED <<jsonFile, scanSuccess, vulnCounts, totalVulns, uniqueCves,
                   parseWarned, summaryFile, topShown, moreCount>>
    /\ UNCHANGED sizeVars
    /\ UNCHANGED buildVars
    /\ UNCHANGED estVars
    /\ UNCHANGED imgVars

\* lines 220-261: an exception in the try block prints nothing
PrintTop ==
    /\ pc = "top"
    /\ pc' = "done"
    /\ IF totalVulns > 0 /\ jsonFile.kind # "absent"
       THEN LET found == CollectCriticalHigh(jsonFile) IN
            IF ~found.threw /\ Len(found.list) > 0
            THEN /\ topShown' = TopSlice(found.list)
                 /\ moreCount' = IF Len(found.list) > TopN
                                 THEN Len(found.list) - TopN ELSE 0
            ELSE UNCHANGED <<topShown, moreCount>>
       ELSE UNCHANGED <<topShown, moreCount>>
    /\ UNCHANGED <<jsonFile, scanSuccess, vulnCounts, totalVulns, uniqueCves,
                   parseWarned, summaryFile, terminal>>
    /\ UNCHANGED sizeVars
    /\ UNCHANGED buildVars
    /\ UNCHANGED estVars
    /\ UNCHANGED imgVars

\* nothing returned yet
NoResult == [kind |-> "none", num |-> 0, den |-> 1, exp |-> 0]

SizeIdle ==
    /\ sizePc = "idle"
    /\ sizeString = <<>>
    /\ sizeResult = NoResult
    /\ sizeWarned = FALSE

\* estimatedTotalImageSizeMB = 'N/A'
NotAvailable == [kind |-> "N/A", hundredths |-> 0]

NoEstimateLine == [printed |-> FALSE, shown |-> FALSE, hundredths |-> 0]

EstIdle ==
    /\ estPc = "idle"
    /\ compiledAppOutputBytes = 0
    /\ virtualSizeBytes = 0
    /\ estimatedTotalImageSizeMB = NotAvailable
    /\ estimateWarned = FALSE
    /\ summaryEstimate = NoEstimateLine

Init == ScanInit /\ ImageInit /\ SizeIdle /\ EstIdle /\ BuildIdle

Next ==
    \/ CheckTools
    \/ ResolveImage
    \/ RunTrivy
    \/ ParseReport
    \/ WriteSummary
    \/ PrintTerminal
    \/ PrintTop

Spec == Init /\ [][Next]_vars

----------------------------------------------------------------------------
(* parseSizeToBytes, local_build.mjs:66-90 *)

\* a string is the sequence of its characters
SizeChars == {"1", "5", ".", " ", "G", "M", "K", "B", "m", "b", "x"}
SizeStrings == SeqsUpTo(SizeChars, MaxLen)

Digits == <<"0", "1", "2", "3", "4", "5", "6", "7", "8", "9">>
DigitChars == { Digits[i] : i \in 1..Len(Digits) }
NumberChars == DigitChars \cup {"."}
SpaceChars == {" ", "\t"}

IsDigit(c) == c \in DigitChars
DigitValue(c) == IndexOf(Digits, c)

LowerCase == <<"a", "b", "c", "d", "e", "f", "g", "h", "i", "j", "k", "l", "m",
               "n", "o", "p", "q", "r", "s", "t", "u", "v", "w", "x", "y", "z">>
UpperCase == <<"A", "B", "C", "D", "E", "F", "G", "H", "I", "J", "K", "L", "M",
               "N", "O", "P", "Q", "R", "S", "T", "U", "V", "W", "X", "Y", "Z">>

\* String.prototype.toUpperCase
ToUpperCase(str) ==
    [i \in 1..Len(str) |->
        IF IndexOf(LowerCase, str[i]) >= 0
        THEN UpperCase[IndexOf(LowerCase, str[i]) + 1] ELSE str[i]]

\* [\d.]
IsNumberChar(c) == c \in NumberChars
\* \s
IsSpace(c) == c \in SpaceChars

\* length of the longest run of characters of class from position from
RunLength(str, from, class) ==
    LET ends == { n \in 0..(Len(str) - from + 1) :
                    \A i \in from..(from + n - 1) : str[i] \in class }
    IN CHOOSE n \in ends : \A m \in ends : m <= n

\* (GB|MB|M|KB|K|B) under the flag i
RegexUnits == { <<"G", "B">>, <<"M", "B">>, <<"M">>, <<"K", "B">>, <<"K">>, <<"B">> }

\* sizeString.match(/^([\d.]+)\s*(GB|MB|M|KB|K|B)$/i): the three parts share
\* no character, so the greedy split is the only candidate
MatchSize(str) ==
    LET n == RunLength(str, 1, NumberChars)
        w == RunLength(str, n + 1, SpaceChars)
        unit == SubSeq(str, n + w + 1, Len(str))
    IN IF n >= 1 /\ ToUpperCase(unit) \in RegexUnits
       THEN [matched |-> TRUE, number |-> SubSeq(str, 1, n), unit |-> unit]
       ELSE [matched |-> FALSE, number |-> <<>>, unit |-> <<>>]

RECURSIVE NatOf(_)
\* the value of a string of digits, 0 for the empty string
NatOf(ds) ==
    IF ds = <<>> THEN 0
    ELSE 10 * NatOf(SubSeq(ds, 1, Len(ds) - 1)) + DigitValue(ds[Len(ds)])

RECURSIVE Pow(_, _)
Pow(b, e) == IF e = 0 THEN 1 ELSE b * Pow(b, e - 1)

\* a JS number is held exactly, as the fraction num/den times 1024^exp, so
\* that a product by 1024 stays within the 32-bit integers of TLC; NaN is a
\* value of its own
Num(n, d, e) == [kind |-> "number", num |-> n, den |-> d, exp |-> e]
NaN == [kind |-> "NaN", num |-> 0, den |-> 1, exp |-> 0]

\* parseFloat on a string of digits and dots: the longest prefix that is a
\* decimal literal, NaN when that prefix holds no digit
ParseFloat(str) ==
    LET i == RunLength(str, 1, DigitChars)
        dot == i < Len(str) /\ str[i + 1] = "."
        f == IF dot THEN RunLength(str, i + 2, DigitChars) ELSE 0
    IN IF i = 0 /\ f = 0 THEN NaN
       ELSE Num(NatOf(SubSeq(str, 1, i)) * Pow(10, f) + NatOf(SubSeq(str, i + 2, i + 1 + f)),
                Pow(10, f), 0)

\* value * 1024, n times
Times1024(value, n) ==
    IF value.kind = "NaN" THEN NaN ELSE Num(value.num, value.den, value.exp + n)

\* ScaleByUnit with MB and M falling into the case of KB and K
ScaleByUnitMegaAsKilo(value, unit) ==
    CASE unit = <<"G", "B">> -> Times1024(value, 3)
      [] unit \in {<<"M", "B">>, <<"M">>, <<"K", "B">>, <<"K">>} -> Times1024(value, 1)
      [] unit = <<"B">> -> value
      [] OTHER -> Num(0, 1, 0)

\* the switch on the upper-cased unit
ScaleByUnit(value, unit) ==
    CASE unit = <<"G", "B">> -> Times1024(value, 3)
      [] unit \in {<<"M", "B">>, <<"M">>} -> Times1024(value, 2)
      [] unit \in {<<"K", "B">>, <<"K">>} -> Times1024(value, 1)
      [] unit = <<"B">> -> value
      [] OTHER -> Num(0, 1, 0)

parseSizeToBytes(str) ==
    LET match == MatchSize(str) IN
    IF ~match.matched
    THEN [warned |-> TRUE, value |-> Num(0, 1, 0)]
    ELSE [warned |-> FALSE,
          value |-> ScaleByUnit(ParseFloat(match.number), ToUpperCase(match.unit))]

SizeInit ==
    /\ sizePc = "call"
    /\ sizeString \in SizeStrings
    /\ sizeResult = NoResult
    /\ sizeWarned = FALSE

\* one call of parseSizeToBytes
ParseSize ==
    /\ sizePc = "call"
    /\ sizePc' = "returned"
    /\ sizeResult' = parseSizeToBytes(sizeString).value
    /\ sizeWarned' = parseSizeToBytes(sizeString).warned
    /\ UNCHANGED sizeString
    /\ UNCHANGED scanVars
    /\ UNCHANGED estVars
    /\ UNCHANGED buildVars
    /\ UNCHANGED imgVars

InitSize == ScanInit /\ ImageIdle /\ SizeInit /\ EstIdle /\ BuildIdle

NextSize == ParseSize

SpecSize == InitSize /\ [][NextSize]_vars

----------------------------------------------------------------------------
(* Estimated total image size, local_build.mjs:276-298 and 325-342 *)

\* byte counts of the compiled output and of the image
ByteSamples == {0, 1} \cup { k * 100000007 : k \in 1..MaxSizeSteps }

\* 1024 * 1024
MegaByte == 1024 * 1024

\* (bytes / (1024 * 1024)).toFixed(2), in hundredths of a MB: the division
\* by a power of two is exact, toFixed takes the nearest hundredth and the
\* larger one on a tie
ToFixed2MB(bytes) ==
    (bytes \div MegaByte) * 100 + (((bytes % MegaByte) * 100 + MegaByte \div 2) \div MegaByte)

\* EstimatedTotal without the virtual size
EstimatedTotalNoVirtual(appBytes, virtualBytes) ==
    LET bufferBytes == 300 * 1024 * 1024 IN
    IF appBytes > 0 \/ virtualBytes > 0
    THEN [kind |-> "MB", hundredths |-> ToFixed2MB(appBytes + bufferBytes)]
    ELSE NotAvailable

\* lines 277-286
EstimatedTotal(appBytes, virtualBytes) ==
    LET bufferBytes == 300 * 1024 * 1024 IN
    IF appBytes > 0 \/ virtualBytes > 0
    THEN [kind |-> "MB", hundredths |-> ToFixed2MB(appBytes + virtualBytes + bufferBytes)]
    ELSE NotAvailable

EstInit ==
    /\ estPc = "estimate"
    /\ compiledAppOutputBytes \in ByteSamples
    /\ virtualSizeBytes \in ByteSamples
    /\ estimatedTotalImageSizeMB = NotAvailable
    /\ estimateWarned = FALSE
    /\ summaryEstimate = NoEstimateLine

\* lines 276-298: the estimate, or the warning when both sizes are 0
EstimateTotal ==
    /\ estPc = "estimate"
    /\ estPc' = "summary"
    /\ estimatedTotalImageSizeMB' = EstimatedTotal(compiledAppOutputBytes, virtualSizeBytes)
    /\ estimateWarned' = ~(compiledAppOutputBytes > 0 \/ virtualSizeBytes > 0)
    /\ UNCHANGED <<compiledAppOutputBytes, virtualSizeBytes, summaryEstimate>>
    /\ UNCHANGED scanVars
    /\ UNCHANGED sizeVars
    /\ UNCHANGED buildVars
    /\ UNCHANGED imgVars

\* lines 325-342: the estimate line, or "Could not estimate total image size"
PrintBuildSummary ==
    /\ estPc = "summary"
    /\ estPc' = "done"
    /\ summaryEstimate' =
          IF estimatedTotalImageSizeMB # NotAvailable
          THEN [printed |-> TRUE, shown |-> TRUE,
                hundredths |-> estimatedTotalImageSizeMB.hundredths]
          ELSE [printed |-> TRUE, shown |-> FALSE, hundredths |-> 0]
    /\ UNCHANGED <<compiledAppOutputBytes, virtualSizeBytes,
                   estimatedTotalImageSizeMB, estimateWarned>>
    /\ UNCHANGED scanVars
    /\ UNCHANGED sizeVars
    /\ UNCHANGED buildVars
    /\ UNCHANGED imgVars

InitEstimate == ScanInit /\ ImageIdle /\ SizeIdle /\ EstInit /\ BuildIdle

NextEstimate == EstimateTotal \/ PrintBuildSummary

SpecEstimate == InitEstimate /\ [][NextEstimate]_vars

----------------------------------------------------------------------------
(* The pre-deploy cleanup of the build scripts: local_build.mjs:133-200,   *)
(* scripts/build-n8n.mjs:82-150, local_build_scan.sh:93-115                *)

Scripts == {"local_build.mjs", "build-n8n.mjs", "local_build_scan.sh"}

\* package names and patch keys, as sequences of characters
PdfjsDist == <<"p", "d", "f", "j", "s", "-", "d", "i", "s", "t">>
PkceChallenge == <<"p", "k", "c", "e", "-", "c", "h", "a", "l", "l", "e", "n", "g", "e">>
Bull == <<"b", "u", "l", "l">>
BullMq == <<"b", "u", "l", "l", "m", "q">>
VueTsc == <<"v", "u", "e", "-", "t", "s", "c">>

PATCHES_TO_KEEP == <<PdfjsDist, PkceChallenge, Bull>>

\* a key of pnpm.patchedDependencies: `${name}@${version}`
PatchKey(name, version) == name \o <<"@">> \o version

PatchKeys ==
    { PatchKey(PdfjsDist, <<"5">>), PatchKey(PkceChallenge, <<"3">>),
      PatchKey(Bull, <<"4">>), PatchKey(BullMq, <<"5">>), PatchKey(VueTsc, <<"2">>) }

\* the patch file an entry points to
PatchEntry(key) == [key |-> key, value |-> <<"patches/", key, ".patch">>]

\* the objects of at most n entries with distinct keys, in insertion order
PatchObjects(n) ==
    { [i \in 1..Len(ks) |-> PatchEntry(ks[i])] :
        ks \in { q \in SeqsUpTo(PatchKeys, n) :
                   \A i, j \in 1..Len(q) : i # j => q[i] # q[j] } }

\* package.json as written in the repository: an object without pnpm, with
\* pnpm but no patchedDependencies, or with patchedDependencies
JsonObject(format, pnpm, deps) ==
    [kind |-> "object", format |-> format, pnpm |-> pnpm,
     patchedDependencies |-> deps, others |-> "others"]

\* a file that JSON.parse rejects
InvalidJson == [kind |-> "invalid", format |-> "source", pnpm |-> "absent",
                patchedDependencies |-> <<>>, others |-> "none"]

RootFiles ==
    { MissingJson, InvalidJson,
      JsonObject("source", "absent", <<>>), JsonObject("source", "plain", <<>>) }
    \cup { JsonObject("source", "patched", deps) : deps \in PatchObjects(MaxPatches) }

\* String.prototype.startsWith
StartsWith(str, prefix) ==
    /\ Len(prefix) <= Len(str)
    /\ SubSeq(str, 1, Len(prefix)) = prefix

\* PATCHES_TO_KEEP.some((patchPrefix) => key.startsWith(patchPrefix))
shouldKeep(entry) ==
    \E i \in 1..Len(PATCHES_TO_KEEP) : StartsWith(entry.key, PATCHES_TO_KEEP[i])

filteredPatches(deps) == SelectSeq(deps, shouldKeep)

\* JSON.stringify(packageJson, null, 2) of the modified object
CleanedJson(json) ==
    IF json.pnpm = "patched"
    THEN JsonObject("indent2", "patched", filteredPatches(json.patchedDependencies))
    ELSE JsonObject("indent2", json.pnpm, <<>>)

\* jq 'del(.pnpm.patchedDependencies)'
WithoutPatches(json) ==
    JsonObject("indent2", IF json.pnpm = "patched" THEN "plain" ELSE json.pnpm, <<>>)

\* build-n8n.mjs runs the trim script before the patch cleanup, the other two
\* scripts after it
AfterStep(s, step) ==
    IF s = "build-n8n.mjs"
    THEN CASE step = "backup" -> "trim"
           [] step = "trim" -> "cleanup"
           [] step = "cleanup" -> "deploy"
           [] step = "deploy" -> "restore"
           [] step = "restore" -> "done"
    ELSE CASE step = "backup" -> "cleanup"
           [] step = "cleanup" -> "trim"
           [] step = "trim" -> "deploy"
           [] step = "deploy" -> "restore"
           [] step = "restore" -> "done"

BuildInit ==
    /\ script \in Scripts
    /\ buildPc = "backup"
    /\ packageJson \in RootFiles
    /\ originalJson = packageJson
    /\ packageJsonBak = MissingJson
    /\ feJson = "original"
    /\ feJsonBak = "missing"

\* fs.copy(file, `${file}.bak`) / cp "$FILE" "$FILE.bak" for every file found
Backup ==
    /\ buildPc = "backup"
    /\ buildPc' = AfterStep(script, "backup")
    /\ packageJsonBak' = packageJson
    /\ feJsonBak' = feJson
    /\ UNCHANGED <<script, packageJson, feJson, originalJson>>
    /\ UNCHANGED <<scanVars, sizeVars, estVars, imgVars>>

\* the selective patch cleanup of the two .mjs scripts: an exception of
\* JSON.parse is caught and ends the script with exit code 1
PatchCleanup ==
    /\ buildPc = "cleanup"
    /\ script \in {"local_build.mjs", "build-n8n.mjs"}
    /\ IF packageJson.kind = "missing"
       THEN buildPc' = AfterStep(script, "cleanup") /\ UNCHANGED packageJson
       ELSE IF packageJson.kind = "invalid"
       THEN buildPc' = "exit1" /\ UNCHANGED packageJson
       ELSE /\ buildPc' = AfterStep(script, "cleanup")
            /\ packageJson' = CleanedJson(packageJson)
    /\ UNCHANGED <<script, packageJsonBak, feJson, feJsonBak, originalJson>>
    /\ UNCHANGED <<scanVars, sizeVars, estVars, imgVars>>

\* local_build_scan.sh:101-103: a failure of jq inside the && list does not
\* end the script and leaves package.json as it was
DeletePatches ==
    /\ buildPc = "cleanup"
    /\ script = "local_build_scan.sh"
    /\ buildPc' = AfterStep(script, "cleanup")
    /\ packageJson' = IF packageJson.kind = "object"
                      THEN WithoutPatches(packageJson) ELSE packageJson
    /\ UNCHANGED <<script, packageJsonBak, feJson, feJsonBak, originalJson>>
    /\ UNCHANGED <<scanVars, sizeVars, estVars, imgVars>>

\* node .github/scripts/trim-fe-packageJson.js rewrites the frontend
\* package.json files; its failure ends the script (uncaught rejection,
\* set -e) at a point where it may or may not have written
TrimFrontend ==
    /\ buildPc = "trim"
    /\ \E ok \in BOOLEAN :
          IF ok THEN /\ buildPc' = AfterStep(script, "trim")
                     /\ feJson' = "trimmed"
          ELSE /\ buildPc' = "failed"
               /\ feJson' \in {feJson, "trimmed"}
    /\ UNCHANGED <<script, packageJson, packageJsonBak, feJsonBak, originalJson>>
    /\ UNCHANGED <<scanVars, sizeVars, estVars, imgVars>>

\* pnpm deploy: its failure ends the script
Deploy ==
    /\ buildPc = "deploy"
    /\ \E ok \in BOOLEAN :
          buildPc' = IF ok THEN AfterStep(script, "deploy") ELSE "failed"
    /\ UNCHANGED <<script, packageJson, packageJsonBak, feJson, feJsonBak, originalJson>>
    /\ UNCHANGED <<scanVars, sizeVars, estVars, imgVars>>

\* fs.move(`${file}.bak`, file, { overwrite: true }) / mv "$FILE.bak" "$FILE"
\* for every file that has a .bak
Restore ==
    /\ buildPc = "restore"
    /\ buildPc' = AfterStep(script, "restore")
    /\ IF packageJsonBak.kind # "missing"
       THEN packageJson' = packageJsonBak /\ packageJsonBak' = MissingJson
       ELSE UNCHANGED <<packageJson, packageJsonBak>>
    /\ IF feJsonBak # "missing"
       THEN feJson' = feJsonBak /\ feJsonBak' = "missing"
       ELSE UNCHANGED <<feJson, feJsonBak>>
    /\ UNCHANGED <<script, originalJson>>
    /\ UNCHANGED <<scanVars, sizeVars, estVars, imgVars>>

InitBuild == ScanInit /\ ImageIdle /\ SizeIdle /\ EstIdle /\ BuildInit

NextBuild ==
    \/ Backup
    \/ PatchCleanup
    \/ DeletePatches
    \/ TrimFrontend
    \/ Deploy
    \/ Restore

SpecBuild == InitBuild /\ [][NextBuild]_vars

----------------------------------------------------------------------------
(* What a report holds, read off the JSON value itself *)

RECURSIVE GroupEntries(_)
\* the entries of all result groups, in the order of the report
GroupEntries(rs) ==
    IF rs = <<>> THEN <<>>
    ELSE Head(rs).Vulnerabilities \o GroupEntries(Tail(rs))

IsObject(vuln) == ~vuln.isNull

ReportSlots(file) == IF file.kind = "list" THEN GroupEntries(file.Results) ELSE <<>>
ReportEntries(file) == SelectSeq(ReportSlots(file), IsObject)

RECURSIVE SumCounts(_)
SumCounts(lines) ==
    IF lines = <<>> THEN 0 ELSE Head(lines).count + SumCounts(Tail(lines))

Labels(lines) == { lines[i].key : i \in 1..Len(lines) }

AfterParse == pc \in {"summary", "terminal", "top", "done"}

NamedSeverities == {"CRITICAL", "HIGH", "MEDIUM", "LOW", "UNKNOWN"}

----------------------------------------------------------------------------
(* Properties of the scan script *)

\* C1: in the rendered summary the per-severity counts add up to the total
\* vulnerability count, wherever the parsing of the report stopped.
C1_CountsSumToTotal ==
    summaryFile.written =>
        SumCounts(summaryFile.breakdown.lines) = summaryFile.total

\* C2: the total is the number of vulnerability entries of the report, the
\* unique count is the number of distinct identifiers among them, and the
\* unique count never exceeds the total.
C2_TotalAndUnique ==
    AfterParse =>
        LET entries == ReportEntries(jsonFile) IN
        /\ totalVulns = Len(entries)
        /\ uniqueCves =
             Cardinality({ entries[i].VulnerabilityID : i \in 1..Len(entries) })
        /\ uniqueCves <= totalVulns

\* C3: in the top findings every CRITICAL entry comes before every HIGH entry,
\* and the ranking precedes the cut: a CRITICAL finding is left out only when
\* the list is full of CRITICAL findings.
C3_CriticalBeforeHigh ==
    pc = "done" =>
        /\ \A i, j \in 1..Len(topShown) :
              i < j => ~(topShown[i].severity = "HIGH" /\ topShown[j].severity = "CRITICAL")
        /\ (moreCount > 0 /\ \E i \in 1..Len(topShown) : topShown[i].severity = "HIGH")
              => \A k \in 1..Len(ReportEntries(jsonFile)) :
                    ReportEntries(jsonFile)[k].Severity = "CRITICAL"
                       => \E i \in 1..Len(topShown) :
                             topShown[i].id = ReportEntries(jsonFile)[k].VulnerabilityID

IdsOfSeverity(findings, sev) ==
    LET Is(f) == f.severity = sev
        sel == SelectSeq(findings, Is)
    IN [i \in 1..Len(sel) |-> sel[i].id]

ReportIdsOfSeverity(file, sev) ==
    LET Is(v) == v.Severity = sev
        sel == SelectSeq(ReportEntries(file), Is)
    IN [i \in 1..Len(sel) |-> sel[i].VulnerabilityID]

IsPrefix(s, t) == Len(s) <= Len(t) /\ s = SubSeq(t, 1, Len(s))

\* C4: the top findings are at most 5, all CRITICAL or HIGH, and findings of
\* equal severity keep the order of the report, first seen first.
C4_TopFindingsBounded ==
    pc = "done" =>
        /\ Len(topShown) <= 5
        /\ \A i \in 1..Len(topShown) : topShown[i].severity \in {"CRITICAL", "HIGH"}
        /\ \A sev \in {"CRITICAL", "HIGH"} :
              IsPrefix(IdsOfSeverity(topShown, sev), ReportIdsOfSeverity(jsonFile, sev))

\* a full list with a cut, both severities and two findings of one severity
C4_Witness ==
    /\ pc = "done"
    /\ Len(topShown) = 5
    /\ moreCount > 0
    /\ \E i, j \in 1..Len(topShown) :
          /\ i < j
          /\ topShown[i].severity = topShown[j].severity
          /\ topShown[i].id # topShown[j].id
    /\ \E i, j \in 1..Len(topShown) :
          topShown[i].severity = "HIGH" /\ topShown[j].severity = "CRITICAL"

\* C5: an entry whose severity is none of the five named ones is counted
\* under UNKNOWN, and no other bucket ever appears in the counts.
C5_UnknownBucket ==
    AfterParse =>
        /\ Keys(vulnCounts) \subseteq NamedSeverities
        /\ ~parseWarned =>
              Get(vulnCounts, "UNKNOWN") =
                 Cardinality({ i \in 1..Len(ReportEntries(jsonFile)) :
                    ReportEntries(jsonFile)[i].Severity
                       \notin {"CRITICAL", "HIGH", "MEDIUM", "LOW"} })

\* C6: the breakdown lines of the summary file follow the order CRITICAL,
\* HIGH, MEDIUM, LOW, UNKNOWN, and no line stands ahead of CRITICAL.
C6_BreakdownOrder ==
    summaryFile.written =>
        LET lines == summaryFile.breakdown.lines IN
        /\ \A i, j \in 1..Len(lines) :
              (i < j /\ lines[i].key \in NamedSeverities /\ lines[j].key \in NamedSeverities)
                 => IndexOf(Order, lines[i].key) < IndexOf(Order, lines[j].key)
        /\ \A i \in 1..Len(lines) : lines[i].key = "CRITICAL" => i = 1

\* C7: when the total is not zero the summary shows all five severities,
\* those with a zero count included.
C7_AllFiveShown ==
    (summaryFile.written /\ summaryFile.total # 0) =>
        NamedSeverities \subseteq Labels(summaryFile.breakdown.lines)

\* the report has result groups or none, and no vulnerability entry
NoEntries(file) == file.kind \in {"noResults", "list"} /\ ReportSlots(file) = <<>>

\* C8: a report without vulnerability entries gives total 0, unique 0, every
\* severity count zero, no top findings section, and a summary whose
\* breakdown is the text "No vulnerabilities found".
C8_EmptyReport ==
    (pc = "done" /\ NoEntries(jsonFile)) =>
        /\ totalVulns = 0 /\ uniqueCves = 0
        /\ \A sev \in NamedSeverities : Get(vulnCounts, sev) = 0
        /\ topShown = <<>> /\ moreCount = 0
        /\ summaryFile.written
        /\ summaryFile.total = 0 /\ summaryFile.unique = 0
        /\ summaryFile.breakdown.noneFound
        /\ summaryFile.breakdown.lines = <<>>

\* a report with result groups that hold no entry went through the script
C8_Witness ==
    /\ pc = "done"
    /\ jsonFile.kind = "list"
    /\ Len(jsonFile.Results) > 0
    /\ NoEntries(jsonFile)
    /\ summaryFile.breakdown.noneFound

\* C9: a scan that failed without usable output is never rendered as a clean
\* result, total 0 with "No vulnerabilities found".
C9_FailedScanNotClean ==
    (summaryFile.written /\ ~scanSuccess /\ jsonFile.kind \in {"absent", "garbage"}) =>
        ~(summaryFile.total = 0 /\ summaryFile.breakdown.noneFound)

----------------------------------------------------------------------------
(* Properties of parseSizeToBytes *)

\* a decimal numeral: digits with at most one dot and at least one digit
IsDecimal(str) ==
    /\ \A i \in 1..Len(str) : IsNumberChar(str[i])
    /\ Cardinality({ i \in 1..Len(str) : str[i] = "." }) <= 1
    /\ \E i \in 1..Len(str) : IsDigit(str[i])

\* its value as a fraction: the digits read as an integer, over ten to the
\* number of digits behind the dot
DecimalValue(str) ==
    LET digits == SelectSeq(str, IsDigit)
        dots == { i \in 1..Len(str) : str[i] = "." }
        behind == IF dots = {} THEN 0 ELSE Len(str) - (CHOOSE i \in dots : TRUE)
    IN Num(NatOf(digits), Pow(10, behind), 0)

RECURSIVE Strip(_, _)
\* n without its factors p, and how many there were
Strip(n, p) ==
    IF n = 0 \/ n % p # 0 THEN [rest |-> n, count |-> 0]
    ELSE LET r == Strip(n \div p, p) IN [rest |-> r.rest, count |-> r.count + 1]

\* the number as m * 2^a * 5^b with m prime to 10; den is a power of ten
Canonical(x) ==
    IF x.num = 0 THEN [m |-> 0, a |-> 0, b |-> 0]
    ELSE LET twos == Strip(x.num, 2)
             fives == Strip(twos.rest, 5)
             f == Strip(x.den, 10).count
         IN [m |-> fives.rest, a |-> twos.count - f + 10 * x.exp, b |-> fives.count - f]

SameNumber(x, y) ==
    x.kind = "number" /\ y.kind = "number" /\ Canonical(x) = Canonical(y)

\* the exponent of 1024 that the unit stands for
UnitPower(unit) ==
    CASE unit = <<"B">> -> 0
      [] unit \in {<<"K">>, <<"K", "B">>} -> 1
      [] unit \in {<<"M">>, <<"M", "B">>} -> 2
      [] unit = <<"G", "B">> -> 3

ClaimedUnits == { <<"B">>, <<"K">>, <<"K", "B">>, <<"M">>, <<"M", "B">>, <<"G", "B">> }

\* C10: a number followed, with optional whitespace, by one of the units B, K,
\* KB, M, MB, GB in any letter case parses to the number times the power of
\* 1024 of the unit, without a warning.
C10_SizeTimesMultiplier ==
    sizePc = "returned" =>
        \A i \in 1..Len(sizeString), j \in 1..Len(sizeString) :
            LET number == SubSeq(sizeString, 1, i)
                space == SubSeq(sizeString, i + 1, j)
                unit == ToUpperCase(SubSeq(sizeString, j + 1, Len(sizeString)))
            IN (/\ i <= j
                /\ IsDecimal(number)
                /\ \A k \in 1..Len(space) : IsSpace(space[k])
                /\ unit \in ClaimedUnits)
               => /\ ~sizeWarned
                  /\ SameNumber(sizeResult,
                                Times1024(DecimalValue(number), UnitPower(unit)))

\* "5 mb" was parsed: a lower-case two-letter unit after a space
C10_Witness ==
    /\ sizePc = "returned"
    /\ sizeString = <<"5", " ", "m", "b">>
    /\ sizeResult = Num(5, 1, 2)


\* the text has the form <number><unit>: a decimal numeral, optional
\* whitespace, and one of the units of the pattern in any letter case
HasSizeForm(str) ==
    \E i \in 1..Len(str), j \in 1..Len(str) :
        /\ i <= j
        /\ IsDecimal(SubSeq(str, 1, i))
        /\ \A k \in (i + 1)..j : IsSpace(str[k])
        /\ ToUpperCase(SubSeq(str, j + 1, Len(str))) \in ClaimedUnits

\* C11: parseSizeToBytes returns a non-negative number for every text, and
\* for a text that is not of the form <number><unit> with a well-formed
\* number it warns and returns exactly 0.
C11_MalformedGivesZero ==
    sizePc = "returned" =>
        /\ sizeResult.kind = "number" /\ sizeResult.num >= 0
        /\ ~HasSizeForm(sizeString) => (sizeWarned /\ SameNumber(sizeResult, Num(0, 1, 0)))

\* C16: the one-letter units K, M, G parse like KB, MB, GB: a number followed
\* by the one-letter unit gives the number times 1024, 1024^2, 1024^3.
C16_OneLetterUnits ==
    sizePc = "returned" =>
        \A i \in 1..Len(sizeString) :
            LET number == SubSeq(sizeString, 1, i)
                unit == ToUpperCase(SubSeq(sizeString, i + 1, Len(sizeString)))
            IN (IsDecimal(number) /\ unit \in {<<"K">>, <<"M">>, <<"G">>})
               => /\ ~sizeWarned
                  /\ SameNumber(sizeResult,
                        Times1024(DecimalValue(number),
                                  CASE unit = <<"K">> -> 1
                                    [] unit = <<"M">> -> 2
                                    [] unit = <<"G">> -> 3))


----------------------------------------------------------------------------
(* Properties of the size estimation *)

\* h hundredths of a MB is a nearest hundredth to the byte count
IsNearestHundredth(h, bytes) ==
    LET whole == bytes \div (1024 * 1024)
        rest == bytes % (1024 * 1024)
        part == h - 100 * whole
    IN /\ part \in 0..100
       /\ 2 * (part * 1024 * 1024 - 100 * rest) <= 1024 * 1024
       /\ 2 * (100 * rest - part * 1024 * 1024) <= 1024 * 1024

\* C12: with an artifact size a and an image size b of which one is not 0 the
\* estimate is a + b + 300 * 1024 * 1024 bytes (shown in MB with two
\* decimals); with both 0 it is 'N/A' with a warning and no total is shown.
C12_EstimateIsSumOrUnavailable ==
    estPc \in {"summary", "done"} =>
        LET a == compiledAppOutputBytes
            b == virtualSizeBytes
        IN IF a = 0 /\ b = 0
           THEN /\ estimatedTotalImageSizeMB.kind = "N/A"
                /\ estimateWarned
                /\ estPc = "done" => ~summaryEstimate.shown
           ELSE /\ estimatedTotalImageSizeMB.kind = "MB"
                /\ ~estimateWarned
                /\ IsNearestHundredth(estimatedTotalImageSizeMB.hundredths,
                                      a + b + 300 * 1024 * 1024)
                /\ estPc = "done" =>
                      /\ summaryEstimate.shown
                      /\ summaryEstimate.hundredths = estimatedTotalImageSizeMB.hundredths

\* both sizes known and the estimate printed in the build summary
C12_Witness ==
    /\ estPc = "done"
    /\ compiledAppOutputBytes > 1
    /\ virtualSizeBytes > 1
    /\ summaryEstimate.shown


----------------------------------------------------------------------------
(* Further properties of the scan script *)

AfterScan == pc \in {"parse", "summary", "terminal", "top"}

StepsToEnd ==
    AfterScan =>
        /\ pc' \in {"summary", "terminal", "top", "done"}
        /\ pc' = "done" => summaryFile'.written

C15_NoTitlePlaceholder ==
    (pc = "done" /\ jsonFile.kind = "list" /\ ~parseWarned) =>
        LET ch == SelectSeq(ReportEntries(jsonFile), IsCriticalHigh) IN
        /\ Len(topShown) = IF Len(ch) < 5 THEN Len(ch) ELSE 5
        /\ \A i \in 1..Len(topShown) :
              /\ topShown[i].id = ch[i].VulnerabilityID
              /\ topShown[i].title =
                    IF ch[i].Title \in {Undefined, ""} THEN "No title" ELSE ch[i].Title

\* an entry without a title is listed and the listing goes on after it
C15_Witness ==
    /\ pc = "done"
    /\ \E i, j \in 1..Len(topShown) :
          i < j /\ topShown[i].title = "No title" /\ topShown[j].title # "No title"
    /\ \E k \in 1..Len(ReportEntries(jsonFile)) :
          IsCriticalHigh(ReportEntries(jsonFile)[k]) /\ ReportEntries(jsonFile)[k].Title = ""

Pairs(lines) == { <<lines[i].key, lines[i].count>> : i \in 1..Len(lines) }

\* C19: the summary file shows "No vulnerabilities found" exactly when the
\* terminal shows it, that is exactly when the total is 0, and otherwise both
\* show the same severity/count pairs.
C19_FileAndTerminalAgree ==
    terminal.printed =>
        /\ summaryFile.breakdown.noneFound <=> terminal.noneFound
        /\ terminal.noneFound <=> summaryFile.total = 0
        /\ summaryFile.total # 0 =>
              Pairs(summaryFile.breakdown.lines) = Pairs(terminal.lines)


\* C18: in the summary, the image of the "Image:" line is the image that was
\* scanned, the sizes printed are those of that image, and the image whose
\* existence was checked before the scan is that image too.
C18_OneImage ==
    summaryFile.written =>
        /\ summaryImage.image = scannedImage
        /\ summaryImage.sizesOf # NoImage => summaryImage.sizesOf = scannedImage
        /\ checkedImage = scannedImage


----------------------------------------------------------------------------
(* Properties of the pre-deploy cleanup *)

ScriptEnded == buildPc \in {"done", "exit1", "failed"}

\* C17: when a build script has ended, on whichever path, after the backup
\* was made, every backed-up package.json has its original content and no
\* .bak file is left.
C17_RestoredOnEveryPath ==
    ScriptEnded =>
        /\ packageJson = originalJson
        /\ feJson = "original"
        /\ packageJsonBak = MissingJson
        /\ feJsonBak = "missing"

\* the package name of a patch key: what precedes the last "@"
PackageName(key) ==
    LET at == CHOOSE i \in 1..Len(key) :
                 key[i] = "@" /\ \A j \in (i + 1)..Len(key) : key[j] # "@"
    IN SubSeq(key, 1, at - 1)

IsBackendPatch(entry) ==
    PackageName(entry.key) \in {PdfjsDist, PkceChallenge, Bull}

\* the root package.json has just been through the selective cleanup
JustCleaned ==
    /\ script \in {"local_build.mjs", "build-n8n.mjs"}
    /\ buildPc = AfterStep(script, "cleanup")
    /\ originalJson.pnpm = "patched"

\* C20: after the selective cleanup pnpm.patchedDependencies is exactly the
\* original entries of pdfjs-dist, pkce-challenge and bull, values unchanged,
\* and every other field of package.json is as it was.
C20_OnlyBackendPatches ==
    JustCleaned =>
        /\ packageJson.patchedDependencies =
              SelectSeq(originalJson.patchedDependencies, IsBackendPatch)
        /\ packageJson.pnpm = originalJson.pnpm
        /\ packageJson.others = originalJson.others

====
